---------------------------- MODULE Spec2Model ----------------------------
(***************************************************************************)
(* Two-phase heat-transfer correlations of ht/boiling_flow.py and          *)
(* ht/conv_two_phase.py.                                                   *)
(*                                                                         *)
(* Numbers.  The correlations are products of real powers of their inputs. *)
(* A positive real is held exactly as a "monomial": for each member p of   *)
(* BasisSeq (pi and the primes the program's literals and the inputs       *)
(* factor into) a rational exponent e, standing for the product of p^e.    *)
(* Multiplication, division                                                *)
(* and ** are then exact; two monomials are equal exactly when the reals   *)
(* are.  Sums and comparisons are taken on monomials that are rational     *)
(* numbers (ToQ), in exact rational arithmetic on pairs <<n, d>>.          *)
(***************************************************************************)
EXTENDS Integers, Sequences, FiniteSets, TLC

(***************************************************************************)
(* Rationals: <<n, d>> with d > 0 and gcd(n, d) = 1.                       *)
(***************************************************************************)
Abs(a) == IF a < 0 THEN -a ELSE a

RECURSIVE GCD(_, _)
GCD(a, b) == IF b = 0 THEN a ELSE GCD(b, a % b)

QN(n, d) ==
    LET g == GCD(Abs(n), Abs(d))
        s == IF d < 0 THEN -1 ELSE 1
    IN  <<s * (n \div g), s * (d \div g)>>

QInt(n) == <<n, 1>>

QAdd(a, b) ==
    LET g == GCD(a[2], b[2])
    IN  QN(a[1] * (b[2] \div g) + b[1] * (a[2] \div g), (a[2] \div g) * b[2])

QNeg(a) == <<-a[1], a[2]>>

QSub(a, b) == QAdd(a, QNeg(b))

QMul(a, b) ==
    LET g1 == GCD(Abs(a[1]), b[2])
        g2 == GCD(Abs(b[1]), a[2])
    IN  QN((a[1] \div g1) * (b[1] \div g2), (a[2] \div g2) * (b[2] \div g1))

QInv(a) == IF a[1] < 0 THEN <<-a[2], -a[1]>> ELSE <<a[2], a[1]>>

QDiv(a, b) == QMul(a, QInv(b))

QLt(a, b) == QSub(a, b)[1] < 0

QGt(a, b) == QLt(b, a)

QZero == <<0, 1>>

QOne == <<1, 1>>

(***************************************************************************)
(* Monomials.  A monomial is the tuple of the exponents of BasisSeq, whose *)
(* first member, PI, stands for pi and whose other members are primes.     *)
(***************************************************************************)
PI == 0

BasisSeq == <<PI, 2, 3, 5, 7, 13, 17, 19, 29, 31, 37, 167, 1801, 28019>>

NB == Len(BasisSeq)

RECURSIVE Val(_, _)
Val(p, n) == IF n % p = 0 THEN 1 + Val(p, n \div p) ELSE 0

RECURSIVE IPow(_, _)
IPow(b, k) == IF k = 0 THEN 1 ELSE b * IPow(b, k - 1)

VOne ==
    <<QZero, QZero, QZero, QZero, QZero, QZero, QZero, QZero, QZero, QZero,
      QZero, QZero, QZero, QZero>>

VPi ==
    <<QOne, QZero, QZero, QZero, QZero, QZero, QZero, QZero, QZero, QZero,
      QZero, QZero, QZero, QZero>>

VVal(n) ==
    <<QZero, QInt(Val(2, n)), QInt(Val(3, n)), QInt(Val(5, n)),
      QInt(Val(7, n)), QInt(Val(13, n)), QInt(Val(17, n)), QInt(Val(19, n)),
      QInt(Val(29, n)), QInt(Val(31, n)), QInt(Val(37, n)), QInt(Val(167, n)),
      QInt(Val(1801, n)), QInt(Val(28019, n))>>

VMul(a, b) == [i \in 1..NB |-> QAdd(a[i], b[i])]

VPow(a, e) == [i \in 1..NB |-> QMul(a[i], e)]

VDiv(a, b) == VMul(a, VPow(b, QInt(-1)))

IsRat(v) == \A i \in 1..NB : IF BasisSeq[i] = PI THEN v[i] = QZero ELSE v[i][2] = 1

RECURSIVE NumFrom(_, _)
NumFrom(v, i) ==
    IF i > NB THEN 1
    ELSE IF BasisSeq[i] = PI \/ v[i][1] <= 0 THEN NumFrom(v, i + 1)
    ELSE IPow(BasisSeq[i], v[i][1]) * NumFrom(v, i + 1)

RECURSIVE DenFrom(_, _)
DenFrom(v, i) ==
    IF i > NB THEN 1
    ELSE IF BasisSeq[i] = PI \/ v[i][1] >= 0 THEN DenFrom(v, i + 1)
    ELSE IPow(BasisSeq[i], -v[i][1]) * DenFrom(v, i + 1)

(* The rational number a monomial is; it must be one.                      *)
ToQ(v) == IF IsRat(v) THEN <<NumFrom(v, 1), DenFrom(v, 1)>> ELSE CHOOSE r \in {} : TRUE

(* An integer as a monomial; it must factor over the primes of BasisSeq.   *)
VInt(n) == IF NumFrom(VVal(n), 1) = n THEN VVal(n) ELSE CHOOSE v \in {} : TRUE

VRat(n, d) == VDiv(VInt(n), VInt(d))

FromQ(q) == VRat(q[1], q[2])

D(n, d) == QN(n, d)

(***************************************************************************)
(* Python values.  An optional argument is None, the number 0, or a        *)
(* positive number; `if q:` is true of the last only.  A flag is None, the *)
(* number 0, True or False; `if flag:` is true of True only.               *)
(***************************************************************************)
None == [t |-> "None", v |-> VOne]

Zero == [t |-> "zero", v |-> VOne]

Num(v) == [t |-> "num", v |-> v]

Truthy(o) == o.t \in {"num", "True"}

IsNone(o) == o.t = "None"

(* The number 0 passed for the diameter or the liquid viscosity: G =       *)
(* m/(pi/4*D**2) and the Reynolds number G*D/mul then divide by zero.      *)
VZero == <<>>

NeedMsg == "Either q or Te is needed for this correlation"

Value(v) == [kind |-> "value", v |-> v, err |-> ""]

Raise(e) == [kind |-> "raise", v |-> VOne, err |-> e]

(***************************************************************************)
(* Dimensionless groups of fluids.core, as the correlations call them.     *)
(***************************************************************************)
g == VRat(980665, 100000)

PiOver4 == VDiv(VPi, VInt(4))

Boiling(G, q, Hvap) == VDiv(q, VMul(G, Hvap))

Bond(rhol, rhog, sigma, L) ==
    VDiv(VMul(VMul(g, FromQ(QSub(ToQ(rhol), ToQ(rhog)))), VPow(L, QInt(2))), sigma)

Weber(V, L, rho, sigma) == VDiv(VMul(VMul(VPow(V, QInt(2)), L), rho), sigma)

OneMinus(x) == FromQ(QSub(QOne, ToQ(x)))

MassFlux(m, Dia) == VDiv(m, VMul(PiOver4, VPow(Dia, QInt(2))))

(***************************************************************************)
(* Lazarek_Black(m, D, mul, kl, Hvap, q=None, Te=None)                     *)
(***************************************************************************)
Lazarek_Black_q(a) ==
    LET G    == MassFlux(a.m, a.D)
        Relo == VDiv(VMul(G, a.D), a.mul)
        Bg   == Boiling(G, a.q.v, a.Hvap)
    IN  VDiv(VMul(VMul(VMul(VInt(30), VPow(Relo, D(857, 1000))),
                       VPow(Bg, D(714, 1000))), a.kl), a.D)

Lazarek_Black_Te(a) ==
    LET G    == MassFlux(a.m, a.D)
        Relo == VDiv(VMul(G, a.D), a.mul)
    IN  VDiv(VMul(VMul(VMul(VMul(VMul(VInt(27000), VPow(VInt(30), D(71, 143))),
                                 VPow(VDiv(VOne, VMul(G, a.Hvap)), D(357, 143))),
                            VPow(Relo, D(857, 286))),
                       VPow(a.Te.v, D(357, 143))),
                  VPow(a.kl, D(500, 143))),
             VPow(a.D, D(500, 143)))

Lazarek_Black(a) ==
    IF a.D = VZero \/ a.mul = VZero THEN Raise("ZeroDivisionError")
    ELSE IF Truthy(a.q) THEN Value(Lazarek_Black_q(a))
    ELSE IF Truthy(a.Te) THEN Value(Lazarek_Black_Te(a))
    ELSE Raise(NeedMsg)

(***************************************************************************)
(* Li_Wu(m, x, D, rhol, rhog, mul, kl, Hvap, sigma, q=None, Te=None)       *)
(***************************************************************************)
Li_Wu_q(a) ==
    LET G   == MassFlux(a.m, a.D)
        Rel == VDiv(VMul(VMul(G, a.D), OneMinus(a.x)), a.mul)
        Bo  == Bond(a.rhol, a.rhog, a.sigma, a.D)
        Bg  == Boiling(G, a.q.v, a.Hvap)
    IN  VDiv(VMul(VMul(VMul(VInt(334), VPow(Bg, D(3, 10))),
                       VPow(VMul(Bo, VPow(Rel, D(36, 100))), D(4, 10))), a.kl), a.D)

Li_Wu_Te(a) ==
    LET G   == MassFlux(a.m, a.D)
        Rel == VDiv(VMul(VMul(G, a.D), OneMinus(a.x)), a.mul)
        Bo  == Bond(a.rhol, a.rhog, a.sigma, a.D)
        A   == VDiv(VMul(VMul(VInt(334),
                              VPow(VMul(Bo, VPow(Rel, D(36, 100))), D(4, 10))), a.kl), a.D)
    IN  VDiv(VMul(VPow(A, D(10, 7)), VPow(a.Te.v, D(3, 7))),
             VMul(VPow(G, D(3, 7)), VPow(a.Hvap, D(3, 7))))

Li_Wu(a) ==
    IF a.D = VZero \/ a.mul = VZero THEN Raise("ZeroDivisionError")
    ELSE IF Truthy(a.q) THEN Value(Li_Wu_q(a))
    ELSE IF Truthy(a.Te) THEN Value(Li_Wu_Te(a))
    ELSE Raise(NeedMsg)

(***************************************************************************)
(* Sun_Mishima(m, D, rhol, rhog, mul, kl, Hvap, sigma, q=None, Te=None)    *)
(***************************************************************************)
Sun_Mishima_A(a) ==
    LET G    == MassFlux(a.m, a.D)
        V    == VDiv(G, a.rhol)
        Relo == VDiv(VMul(G, a.D), a.mul)
        We   == Weber(V, a.D, a.rhol, a.sigma)
    IN  VDiv(VMul(VDiv(VMul(VInt(6), VPow(Relo, D(105, 100))),
                       VMul(VPow(We, D(191, 1000)),
                            VPow(VDiv(a.rhol, a.rhog), D(142, 1000)))), a.kl), a.D)

Sun_Mishima_q(a) ==
    LET G    == MassFlux(a.m, a.D)
        V    == VDiv(G, a.rhol)
        Relo == VDiv(VMul(G, a.D), a.mul)
        We   == Weber(V, a.D, a.rhol, a.sigma)
        Bg   == Boiling(G, a.q.v, a.Hvap)
    IN  VDiv(VMul(VDiv(VMul(VMul(VInt(6), VPow(Relo, D(105, 100))), VPow(Bg, D(54, 100))),
                       VMul(VPow(We, D(191, 1000)),
                            VPow(VDiv(a.rhol, a.rhog), D(142, 1000)))), a.kl), a.D)

Sun_Mishima_Te(a) ==
    LET G == MassFlux(a.m, a.D)
        A == Sun_Mishima_A(a)
    IN  VDiv(VMul(VPow(A, D(50, 23)), VPow(a.Te.v, D(27, 23))),
             VMul(VPow(G, D(27, 23)), VPow(a.Hvap, D(27, 23))))

Sun_Mishima(a) ==
    IF a.D = VZero \/ a.mul = VZero THEN Raise("ZeroDivisionError")
    ELSE IF Truthy(a.q) THEN Value(Sun_Mishima_q(a))
    ELSE IF Truthy(a.Te) THEN Value(Sun_Mishima_Te(a))
    ELSE Raise(NeedMsg)

(***************************************************************************)
(* Yun_Heo_Kim(m, x, D, rhol, mul, Hvap, sigma, q=None, Te=None)           *)
(***************************************************************************)
Yun_Heo_Kim_q(a) ==
    LET G   == MassFlux(a.m, a.D)
        V   == VDiv(G, a.rhol)
        Rel == VDiv(VMul(VMul(G, a.D), OneMinus(a.x)), a.mul)
        We  == Weber(V, a.D, a.rhol, a.sigma)
        Bg  == Boiling(G, a.q.v, a.Hvap)
    IN  VMul(VMul(VInt(136876), VPow(VMul(Bg, We), D(1993, 10000))),
             VPow(Rel, D(-1626, 10000)))

(* The exponent as the docstring prints it, 10000/8707. *)
Yun_Heo_Kim_Te_8707(a) ==
    LET G   == MassFlux(a.m, a.D)
        V   == VDiv(G, a.rhol)
        Rel == VDiv(VMul(VMul(G, a.D), OneMinus(a.x)), a.mul)
        We  == Weber(V, a.D, a.rhol, a.sigma)
        A   == VMul(VMul(VMul(VInt(136876), VPow(We, D(1993, 10000))),
                         VPow(Rel, D(-1626, 10000))),
                    VPow(VDiv(VDiv(a.Te.v, G), a.Hvap), D(1993, 10000)))
    IN  VPow(A, D(10000, 8707))

Yun_Heo_Kim_Te(a) ==
    LET G   == MassFlux(a.m, a.D)
        V   == VDiv(G, a.rhol)
        Rel == VDiv(VMul(VMul(G, a.D), OneMinus(a.x)), a.mul)
        We  == Weber(V, a.D, a.rhol, a.sigma)
        A   == VMul(VMul(VMul(VInt(136876), VPow(We, D(1993, 10000))),
                         VPow(Rel, D(-1626, 10000))),
                    VPow(VDiv(VDiv(a.Te.v, G), a.Hvap), D(1993, 10000)))
    IN  VPow(A, D(10000, 8007))

Yun_Heo_Kim(a) ==
    IF a.D = VZero \/ a.mul = VZero THEN Raise("ZeroDivisionError")
    ELSE IF Truthy(a.q) THEN Value(Yun_Heo_Kim_q(a))
    ELSE IF Truthy(a.Te) THEN Value(Yun_Heo_Kim_Te(a))
    ELSE Raise(NeedMsg)

(***************************************************************************)
(* Inputs of the model.                                                    *)
(***************************************************************************)
MaxK == 2

MaxQ == 2

MVals == {VInt(k) : k \in 1..MaxK}

DVals == {VRat(1, 2), VInt(3), VZero}

MulVals == {VRat(1, 5), VZero}

QOpts == {None, Zero} \cup {Num(VInt(5 * k)) : k \in 1..MaxQ}

TeOpts == {None, Zero} \cup {Num(VInt(3 * k)) : k \in 1..MaxQ}

LBArgs == [m : MVals, D : DVals, mul : MulVals, kl : {VRat(3, 5)},
           Hvap : {VInt(7)}, q : QOpts, Te : TeOpts]

LWArgs == [m : MVals, x : {VRat(1, 3)}, D : DVals, rhol : {VInt(5)}, rhog : {VInt(2)},
           mul : MulVals, kl : {VRat(3, 5)}, Hvap : {VInt(7)}, sigma : {VRat(1, 13)},
           q : QOpts, Te : TeOpts]

SMArgs == [m : MVals, D : DVals, rhol : {VInt(5)}, rhog : {VInt(2)},
           mul : MulVals, kl : {VRat(3, 5)}, Hvap : {VInt(7)}, sigma : {VRat(1, 13)},
           q : QOpts, Te : TeOpts]

YHKArgs == [m : MVals, x : {VRat(1, 3)}, D : DVals, rhol : {VInt(5)},
            mul : MulVals, Hvap : {VInt(7)}, sigma : {VRat(1, 13)},
            q : QOpts, Te : TeOpts]

(***************************************************************************)
(* Aggour(m, x, alpha, D, rhol, Cpl, kl, mu_b, mu_w=None, L=None,          *)
(*        turbulent=None)                                                  *)
(* The flag turbulent is None, 0, True or False: line 716 tests its truth  *)
(* value and `turbulent is None`.  The model draws m as a rational         *)
(* multiple of pi, which makes Rel rational.  The code compares with       *)
(* 2000 the float that Reynolds returns, which is Rel up to the            *)
(* rounding of the products and quotients of lines 710-714 and of          *)
(* Reynolds; where Rel is 2000 the rounding decides the comparison, and    *)
(* the call carries it as a.round: the float is below 2000 ("down"), is    *)
(* 2000 ("exact") or is above ("up").                                      *)
(***************************************************************************)
Prandtl(Cp, k, mu) == VDiv(VMul(Cp, mu), k)

Reynolds(V, Dia, rho, mu) == VDiv(VMul(VMul(V, Dia), rho), mu)

Aggour_Vl(a) ==
    LET Vls == VDiv(VMul(a.m, OneMinus(a.x)),
                    VMul(VDiv(VMul(a.rhol, VPi), VInt(4)), VPow(a.D, QInt(2))))
    IN  VDiv(Vls, OneMinus(a.alpha))

Aggour_Prl(a) == Prandtl(a.Cpl, a.kl, a.mu_b)

Aggour_Rel(a) == Reynolds(Aggour_Vl(a), a.D, a.rhol, a.mu_b)

(* The factor of line 722 applied in the turbulent branch as well. *)
Aggour_turbulent_corrected(a) ==
    LET hl0 == VMul(VMul(VMul(VRat(155, 10000), VDiv(a.kl, a.D)),
                         VPow(Aggour_Rel(a), D(83, 100))),
                    VPow(Aggour_Prl(a), D(5, 10)))
        hl  == IF Truthy(a.mu_w)
               THEN VMul(hl0, VPow(VDiv(a.mu_b, a.mu_w.v), D(14, 100)))
               ELSE hl0
    IN  Value(VMul(hl, VPow(OneMinus(a.alpha), D(-83, 100))))

Aggour_turbulent(a) ==
    LET hl == VMul(VMul(VMul(VRat(155, 10000), VDiv(a.kl, a.D)),
                        VPow(Aggour_Rel(a), D(83, 100))),
                   VPow(Aggour_Prl(a), D(5, 10)))
    IN  Value(VMul(hl, VPow(OneMinus(a.alpha), D(-83, 100))))

Aggour_laminar(a) ==
    IF IsNone(a.L) THEN Raise("TypeError")
    ELSE IF ~Truthy(a.L) THEN Raise("ZeroDivisionError")
    ELSE LET hl0 == VMul(VMul(VRat(1615, 1000), VDiv(a.kl, a.D)),
                         VPow(VDiv(VMul(VMul(Aggour_Rel(a), Aggour_Prl(a)), a.D), a.L.v),
                              D(1, 3)))
             hl  == IF Truthy(a.mu_w)
                    THEN VMul(hl0, VPow(VDiv(a.mu_b, a.mu_w.v), D(14, 100)))
                    ELSE hl0
         IN  Value(VMul(hl, VPow(OneMinus(a.alpha), D(-1, 3))))

(* The float Rel of line 714 is above 2000. *)
Aggour_Rel_above(a) ==
    \/ QGt(ToQ(Aggour_Rel(a)), QInt(2000))
    \/ (ToQ(Aggour_Rel(a)) = QInt(2000) /\ a.round = "up")

(* The threshold taken as Rel >= 2000. *)
Aggour_takes_turbulent_ge(a) ==
    \/ Truthy(a.turbulent)
    \/ (/\ \/ QGt(ToQ(Aggour_Rel(a)), QInt(2000))
           \/ (ToQ(Aggour_Rel(a)) = QInt(2000) /\ a.round # "down")
        /\ IsNone(a.turbulent))

(* The flag ignored. *)
Aggour_takes_turbulent_by_Rel(a) == Aggour_Rel_above(a)

Aggour_takes_turbulent(a) ==
    \/ Truthy(a.turbulent)
    \/ (Aggour_Rel_above(a) /\ IsNone(a.turbulent))

(* L validated before the branch is chosen. *)
Aggour_checks_L_first(a) ==
    IF IsNone(a.L) THEN Raise("TypeError")
    ELSE IF Aggour_takes_turbulent(a) THEN Aggour_turbulent(a) ELSE Aggour_laminar(a)

Aggour(a) ==
    IF Aggour_takes_turbulent(a) THEN Aggour_turbulent(a) ELSE Aggour_laminar(a)

AggourArgs == [m : {VMul(VRat(k, 8), VPi) : k \in 1..(MaxK + 1)},
               x : {VRat(1, 2)}, alpha : {VRat(1, 2)}, D : {VRat(1, 2)},
               rhol : {VInt(1000)}, Cpl : {VInt(2000)}, kl : {VRat(3, 5)},
               mu_b : {VRat(1, 1000)}, mu_w : {None, Zero, Num(VRat(12, 10000))},
               L : {None, Zero, Num(VInt(4))},
               turbulent : {None, Zero, [t |-> "True", v |-> VOne],
                            [t |-> "False", v |-> VOne]},
               round : {"down", "exact", "up"}]

(***************************************************************************)
(* Thome(m, x, D, rhol, rhog, mul, mug, kl, kg, Cpl, Cpg, Hvap, sigma,     *)
(*       Psat, Pc, q=None, Te=None)                                        *)
(*                                                                         *)
(* The arguments mul, mug, Cpl, Cpg, sigma, Psat and Pc enter the result   *)
(* through six sub-expressions only, none of which depends on q:           *)
(*   qref = 3328*(Psat/Pc)**-0.5                              line 462     *)
(*   delta0                                                   lines 466-469*)
(*   2*0.455*Prl**(1/3.)*Rel**0.5, the factor of (D/Ll)**0.5 in line 492   *)
(*   turbulent_Gnielinski(Re=Rel, Pr=Prl, fd=fl)              line 493     *)
(*   2*0.455*Prg**(1/3.)*Reg**0.5, the factor of (D/Ldry)**0.5 in line 497 *)
(*   turbulent_Gnielinski(Re=Reg, Pr=Prg, fd=fg)              line 498     *)
(* A call carries their values as its environment a.env, one of seven      *)
(* tables; every other line of the direct path is computed from them as    *)
(* the code computes it.  The cycle times, lengths, weights and            *)
(* coefficients are rationals; q, Te and the Nusselt numbers are           *)
(* monomials.  The tables are chosen so that the powers and the fourth     *)
(* roots of lines 463, 492-501 come out exact:                             *)
(*   1  t_dry_film = tv: the else branch with Ldry = 0                     *)
(*   2  the film dries out before the vapor has passed                     *)
(*   3  delta0 below the minimum thickness                                 *)
(*   4  delta0 at the minimum thickness; the one evaluated at two heat     *)
(*      fluxes, and the one the inverse path is called with                *)
(*   5  the film outlasts the vapor                                        *)
(*   6  the quality 1/9                                                    *)
(*   7  the quality end points                                             *)
(***************************************************************************)
C_delta0 == <<3, 10000000>>

InitialGuess == 10000

(* Line 462: qref, given by the frequency (q/qref)**1.74 it makes of the   *)
(* heat flux 1E4.                                                          *)
Env_qref(e) ==
    VDiv(VInt(InitialGuess),
         VPow(CASE e \in {1, 2, 4} -> VInt(100) [] e \in {3, 5} -> VInt(800)
                [] e = 6 -> VRat(1600, 9) [] e = 7 -> VInt(200),
              D(50, 87)))

Env_delta0(e) ==
    CASE e \in {1, 5, 7} -> <<11, 10000000>> [] e = 2 -> <<1, 1000000>>
      [] e = 3 -> <<1, 16000000>> [] e \in {4, 6} -> <<3, 10000000>>

(* Line 492 without its factor (D/Ll)**0.5. *)
Env_lam_Zl(e) == VMul(VInt(60), VPow(VRat(14911, 399), D(1, 4)))

(* Line 493 without its factor 1 + (D/Ll)**(2/3.). *)
Env_Gnielinski_Zl(e) == VMul(VInt(30), VPow(VRat(17408, 399), D(1, 4)))

(* Line 497 without its factor (D/Ldry)**0.5. *)
Env_lam_Zg(e) ==
    IF e = 3
    THEN VMul(VMul(VInt(20), VPow(VRat(609, 625), D(1, 4))), VPow(VRat(27, 8), D(1, 2)))
    ELSE VMul(VMul(VRat(5, 2), VPow(VRat(40625, 68), D(1, 4))), VPow(VInt(8), D(1, 2)))

(* Line 498 without its factor 1 + (D/Ldry)**(2/3.). *)
Env_Gnielinski_Zg(e) ==
    IF e = 3 THEN VRat(72, 13) ELSE VMul(VInt(2), VPow(VRat(1875, 68), D(1, 4)))

NoLoc ==
    [valid |-> FALSE, q |-> VZero, G |-> QZero, D |-> QZero, tau |-> QZero,
     delta0 |-> QZero, vp |-> QZero, tl |-> QZero, tv |-> QZero,
     t_dry_film |-> QZero, branch |-> "none", t_film |-> QZero,
     delta_end |-> QZero, t_dry |-> QZero, Ll |-> QZero, Ldry |-> QZero,
     Nu_lam_Zl |-> VZero, Nu_trans_Zl |-> VZero,
     err |-> "", Nu_lam_Zg |-> VZero, Nu_trans_Zg |-> VZero,
     divLdry |-> FALSE, h_Zg |-> QZero, h_Zl |-> QZero, h_film |-> QZero,
     h |-> QZero, calls |-> {}]

(* Line 463. *)
Thome_fopt(q, qref) == VPow(VDiv(q, qref), D(174, 100))

(* Lines 459-469: G, tau = 1./fopt and delta0.                             *)
Thome_cycle(a, q) ==
    [valid |-> TRUE, q |-> q, G |-> ToQ(MassFlux(a.m, a.D)), D |-> ToQ(a.D),
     tau |-> ToQ(VDiv(VOne, Thome_fopt(q, Env_qref(a.env)))), delta0 |-> Env_delta0(a.env)]

Thome_vp(G, x, rhog, rhol) == QMul(G, QAdd(QDiv(x, rhog), QDiv(QSub(QOne, x), rhol)))

(* What stands for a quotient whose divisor is 0: the division raises     *)
(* ZeroDivisionError.                                                      *)
DivByZero == <<1, 0>>

Thome_tl(tau, rhol, rhog, x) ==
    IF QSub(QOne, x) = QZero THEN DivByZero
    ELSE QDiv(tau, QAdd(QOne, QMul(QDiv(rhol, rhog), QDiv(x, QSub(QOne, x)))))

(* tv taken as the rest of the period, tau - tl, with no division by x. *)
Thome_tv_rest(tau, rhol, rhog, x) == QSub(tau, Thome_tl(tau, rhol, rhog, x))

Thome_tv(tau, rhol, rhog, x) ==
    IF x = QZero THEN DivByZero
    ELSE QDiv(tau, QAdd(QOne, QMul(QDiv(rhog, rhol), QDiv(QSub(QOne, x), x))))

(* Line 474, rhol*Hvap/q*(delta0 - C_delta0): 0 when the last factor is 0, *)
(* whatever the heat flux.                                                 *)
Thome_t_dry_film(rhol, Hvap, q, delta0) ==
    IF delta0 = C_delta0 THEN QZero
    ELSE QMul(QDiv(QMul(rhol, Hvap), ToQ(q)), QSub(delta0, C_delta0))

(* Lines 466-474. *)
Thome_times(a, l) ==
    l @@ [vp |-> Thome_vp(l.G, a.x, a.rhog, a.rhol),
          tl |-> Thome_tl(l.tau, a.rhol, a.rhog, a.x),
          tv |-> Thome_tv(l.tau, a.rhol, a.rhog, a.x),
          t_dry_film |-> Thome_t_dry_film(a.rhol, a.Hvap, l.q, l.delta0)]

(* The comparison taken as t_dry_film >= tv. *)
Thome_dryout_ge(t_dry_film, tv, delta0, q, rhol, Hvap) ==
    IF ~QLt(t_dry_film, tv)
    THEN [branch |-> "film", t_film |-> tv,
          delta_end |-> QSub(delta0, QMul(QDiv(QDiv(ToQ(q), rhol), Hvap), tv)),
          t_dry |-> QZero]
    ELSE [branch |-> "dry", t_film |-> t_dry_film,
          delta_end |-> C_delta0,
          t_dry |-> QSub(tv, t_dry_film)]

(* The film time not limited to tv when the film outlasts the vapor. *)
Thome_dryout_unlimited(t_dry_film, tv, delta0, q, rhol, Hvap) ==
    IF QGt(t_dry_film, tv)
    THEN [branch |-> "film", t_film |-> t_dry_film,
          delta_end |-> QSub(delta0, QMul(QDiv(QDiv(ToQ(q), rhol), Hvap), tv)),
          t_dry |-> QZero]
    ELSE [branch |-> "dry", t_film |-> t_dry_film,
          delta_end |-> C_delta0,
          t_dry |-> QSub(tv, t_dry_film)]

(* No dry period whenever there is a film at all. *)
Thome_dryout_any_film(t_dry_film, tv, delta0, q, rhol, Hvap) ==
    IF QGt(t_dry_film, QZero)
    THEN [branch |-> "film", t_film |-> tv,
          delta_end |-> QSub(delta0, QMul(QDiv(QDiv(ToQ(q), rhol), Hvap), tv)),
          t_dry |-> QZero]
    ELSE [branch |-> "dry", t_film |-> t_dry_film,
          delta_end |-> C_delta0,
          t_dry |-> QSub(tv, t_dry_film)]

(* The dry-out branch, lines 475-482. *)
Thome_dryout(t_dry_film, tv, delta0, q, rhol, Hvap) ==
    IF QGt(t_dry_film, tv)
    THEN [branch |-> "film", t_film |-> tv,
          delta_end |-> QSub(delta0, QMul(QDiv(QDiv(ToQ(q), rhol), Hvap), tv)),
          t_dry |-> QZero]
    ELSE [branch |-> "dry", t_film |-> t_dry_film,
          delta_end |-> C_delta0,
          t_dry |-> QSub(tv, t_dry_film)]

Thome_branch(a, l) ==
    l @@ Thome_dryout(l.t_dry_film, l.tv, l.delta0, l.q, a.rhol, a.Hvap)

(* The liquid slug length taken with x in place of 1-x. *)
Thome_lengths_x(a, l) ==
    l @@ [Ll   |-> QMul(QDiv(QMul(l.tau, l.G), a.rhol), a.x),
          Ldry |-> QMul(l.t_dry, l.vp)]

(* Lines 483-484. *)
Thome_lengths(a, l) ==
    l @@ [Ll   |-> QMul(QDiv(QMul(l.tau, l.G), a.rhol), QSub(QOne, a.x)),
          Ldry |-> QMul(l.t_dry, l.vp)]

(* u + v for two monomials whose quotient is rational. *)
VSum(u, v) == VMul(u, FromQ(QAdd(QOne, ToQ(VDiv(v, u)))))

(* Lines 492 and 497, 2*0.455*Pr**(1/3.)*(D*Re/L)**0.5, c being            *)
(* 2*0.455*Pr**(1/3.)*Re**0.5.                                             *)
Thome_Nu_lam(c, Dia, L) == VMul(c, VPow(VDiv(Dia, L), D(1, 2)))

(* Lines 493 and 498, turbulent_Gnielinski(...)*(1 + (D/L)**(2/3.)), gn    *)
(* being what turbulent_Gnielinski returns.                                *)
Thome_Nu_trans(gn, Dia, L) == VMul(gn, VSum(VOne, VPow(VDiv(Dia, L), D(2, 3))))

(* Lines 492-493. *)
Thome_liquid(a, l) ==
    l @@ [Nu_lam_Zl   |-> Thome_Nu_lam(Env_lam_Zl(a.env), a.D, FromQ(l.Ll)),
          Nu_trans_Zl |-> Thome_Nu_trans(Env_Gnielinski_Zl(a.env), a.D, FromQ(l.Ll))]

(* Lines 497-498, which divide by Ldry. *)
Thome_Nu_Zg_eval(Ldry, Dia, e) ==
    IF Ldry = QZero
    THEN [err |-> "ZeroDivisionError", Nu_lam_Zg |-> VZero, Nu_trans_Zg |-> VZero,
          divLdry |-> TRUE]
    ELSE [err |-> "", Nu_lam_Zg |-> Thome_Nu_lam(Env_lam_Zg(e), Dia, FromQ(Ldry)),
          Nu_trans_Zg |-> Thome_Nu_trans(Env_Gnielinski_Zg(e), Dia, FromQ(Ldry)),
          divLdry |-> TRUE]

(* The test of line 494 left out. *)
Thome_Nu_Zg_unguarded(Ldry, Dia, e) == Thome_Nu_Zg_eval(Ldry, Dia, e)

(* Lines 494-498. *)
Thome_Nu_Zg(Ldry, Dia, e) ==
    IF Ldry = QZero
    THEN [err |-> "", Nu_lam_Zg |-> VZero, Nu_trans_Zg |-> VZero, divLdry |-> FALSE]
    ELSE Thome_Nu_Zg_eval(Ldry, Dia, e)

Thome_vapor(a, l) == l @@ Thome_Nu_Zg(l.Ldry, a.D, a.env)

(* Lines 500 and 501, k/D*(Nu_lam**4 + Nu_trans**4)**0.25; with both terms *)
(* 0 it is k/D*(0**4 + 0**4)**0.25 = 0.                                    *)
Thome_h_Z(k, Dia, Nu_lam, Nu_trans) ==
    IF Nu_lam = VZero /\ Nu_trans = VZero THEN QZero
    ELSE QMul(QDiv(k, Dia),
              ToQ(VPow(VSum(VPow(Nu_lam, QInt(4)), VPow(Nu_trans, QInt(4))), D(1, 4))))

Thome_h_film(kl, delta0, delta_end) == QDiv(QMul(QInt(2), kl), QAdd(delta0, C_delta0))

(* Lines 500-503. *)
Thome_coefficients(a, l) ==
    l @@ [h_Zg   |-> Thome_h_Z(a.kg, l.D, l.Nu_lam_Zg, l.Nu_trans_Zg),
          h_Zl   |-> Thome_h_Z(a.kl, l.D, l.Nu_lam_Zl, l.Nu_trans_Zl),
          h_film |-> Thome_h_film(a.kl, l.delta0, l.delta_end)]

(* Line 504; not reached when line 497 raised. *)
Thome_average(l) ==
    l @@ [h |-> IF l.err = ""
                THEN QAdd(QAdd(QMul(QDiv(l.tl, l.tau), l.h_Zl),
                               QMul(QDiv(l.t_film, l.tau), l.h_film)),
                          QMul(QDiv(l.t_dry, l.tau), l.h_Zg))
                ELSE QZero]

(* Lines 458-505 for a heat flux q > 0: the locals at the return, or at the *)
(* error raised in line 497 (err).                                         *)
Thome_locals(a, q) ==
    Thome_average(Thome_coefficients(a, Thome_vapor(a, Thome_liquid(a, Thome_lengths(a,
        Thome_branch(a, Thome_times(a, Thome_cycle(a, q))))))))

Thome_result(l) ==
    [out |-> IF l.err = "" THEN Value(l.h) ELSE Raise(l.err), loc |-> l]

(* Lines 471-472 at a quality end point: tl divides by 1-x, tv by x. *)
Thome_time_fails(a, l) ==
    \/ Thome_tl(l.tau, a.rhol, a.rhog, a.x) = DivByZero
    \/ Thome_tv(l.tau, a.rhol, a.rhog, a.x) = DivByZero

(* The locals when line 471 or 472 raises: those of lines 459-470, and tl  *)
(* if it is line 472 that raises.                                          *)
Thome_aborted(a, l) ==
    [NoLoc EXCEPT !.q = l.q, !.G = l.G, !.D = l.D, !.tau = l.tau, !.delta0 = l.delta0,
                  !.vp = Thome_vp(l.G, a.x, a.rhog, a.rhol),
                  !.tl = IF Thome_tl(l.tau, a.rhol, a.rhog, a.x) = DivByZero THEN QZero
                         ELSE Thome_tl(l.tau, a.rhol, a.rhog, a.x),
                  !.err = "ZeroDivisionError"]

(* Lines 458-505 with q as passed: D = 0 fails at line 459, q = None at    *)
(* q/qref (line 463), q = 0 at 1./fopt (line 464), x = 1 at line 471 and   *)
(* x = 0 at line 472.                                                      *)
Thome_direct(a, qo) ==
    IF a.D = VZero THEN [out |-> Raise("ZeroDivisionError"), loc |-> NoLoc]
    ELSE IF IsNone(qo) THEN [out |-> Raise("TypeError"), loc |-> NoLoc]
    ELSE IF ~Truthy(qo) THEN [out |-> Raise("ZeroDivisionError"), loc |-> NoLoc]
    ELSE IF Thome_time_fails(a, Thome_cycle(a, qo.v))
    THEN [out |-> Raise("ZeroDivisionError"), loc |-> Thome_aborted(a, Thome_cycle(a, qo.v))]
    ELSE Thome_result(Thome_locals(a, qo.v))

(* The else branch of line 456 left out. *)
Thome_entry_no_raise(a) ==
    IF IsNone(a.q) /\ Truthy(a.Te) THEN "solve" ELSE "direct"

(* The test of line 451 taken as "if Te:". *)
Thome_entry_Te_first(a) ==
    IF Truthy(a.Te) THEN "solve"
    ELSE IF IsNone(a.q) /\ IsNone(a.Te) THEN "raise"
    ELSE "direct"

(* The tests of lines 451 and 456 taken as truthiness tests on q and Te. *)
Thome_entry_truthy(a) ==
    IF ~Truthy(a.q) /\ Truthy(a.Te) THEN "solve"
    ELSE IF ~Truthy(a.q) /\ ~Truthy(a.Te) THEN "raise"
    ELSE "direct"

(* Lines 451-457: which way the call goes. *)
Thome_entry(a) ==
    IF IsNone(a.q) /\ Truthy(a.Te) THEN "solve"
    ELSE IF IsNone(a.q) /\ IsNone(a.Te) THEN "raise"
    ELSE "direct"

(* The nested call made with Te handed on and q left out. *)
Thome_nested_hands_Te(a, q) == [a EXCEPT !.q = None]

(* The arguments of the nested calls Thome(..., q=q) of lines 452 and 455: *)
(* q is passed, Te is not.                                                 *)
Thome_nested(a, q) == [a EXCEPT !.q = Num(q), !.Te = None]

(* How deep a nested call goes: 1 for the direct path or the raise, 2 if   *)
(* it takes the way of the solver itself.                                  *)
Thome_depth(n) == IF Thome_entry(n) = "solve" THEN 2 ELSE 1

Thome_enters_direct(n) == IF Thome_entry(n) = "direct" THEN 1 ELSE 0

(* Line 452: to_solve = lambda q: q/Thome(..., q=q) - Te.  The residual is *)
(* held as its two terms, q/h and Te; it is 0 when they are equal.         *)
Thome_to_solve(a, q) ==
    CHOOSE r \in {<<VDiv(q, FromQ(h)), a.Te.v>> : h \in {Thome_direct(a, Num(q)).out.v}} : TRUE

(* The direct path evaluated at the guess instead of the solution. *)
Thome_final_at_guess(a, q) == Thome_direct(a, Num(VInt(InitialGuess)))

(* Line 455: return Thome(..., q=q), q being what fsolve reported. *)
Thome_final(a, q) == Thome_direct(a, Num(q))

(* A call that does not take the solver's way. *)
Thome(a) ==
    IF Thome_entry(a) = "raise" THEN [out |-> Raise(NeedMsg), loc |-> NoLoc]
    ELSE Thome_direct(a, a.q)

(* The heat fluxes of the calls and of the solver: the guess 1E4 and       *)
(* 1E4*2**(50/29), at which line 463 gives eight times the frequency.      *)
QVals == {VInt(InitialGuess), VMul(VInt(InitialGuess), VPow(VInt(2), D(50, 29)))}

ThomeBase == [m : {VMul(VRat(3, 125), VPi)}, x : {<<1, 2>>}, D : {VRat(1, 100)},
              rhol : {QInt(480)}, rhog : {QInt(60)}, kl : {<<1, 10>>},
              kg : {<<3, 200>>}, Hvap : {<<6250000, 27>>}, env : {1, 2, 3, 5}]

ThomeWith(b, q, Te) ==
    [m |-> b.m, x |-> b.x, D |-> b.D, rhol |-> b.rhol, rhog |-> b.rhog, kl |-> b.kl,
     kg |-> b.kg, Hvap |-> b.Hvap, env |-> b.env, q |-> q, Te |-> Te]

(* Thome with D = 0, called without q and without a non-zero Te. *)
ThomeZeroD == {ThomeWith([b EXCEPT !.D = VZero], None, Te) : b \in ThomeBase, Te \in {None, Zero}}

(* Thome at the quality 1/9, called with q. *)
ThomeLowQuality ==
    {ThomeWith([b EXCEPT !.x = <<1, 9>>, !.env = 6], Num(VInt(InitialGuess)), None) :
        b \in ThomeBase}

(* Thome with a film that starts at the minimum thickness: every way of    *)
(* calling it, the inverse path included.  The excess temperatures offered *)
(* are one arbitrary value and, for each heat flux of QVals, the q/h the   *)
(* direct path gives, so that the residual of the inverse path has an      *)
(* exact root.                                                             *)
ThomeMinimumFilm ==
    UNION {{ThomeWith([b EXCEPT !.env = 4], q, Te) :
                q \in {None, Zero} \cup {Num(q) : q \in QVals},
                Te \in {None, Zero, Num(VInt(10))}
                          \cup {Num(r[1]) :
                                   r \in {Thome_to_solve(ThomeWith([b EXCEPT !.env = 4],
                                                                   None, None), q) :
                                              q \in QVals}}} :
           b \in ThomeBase}

(* Thome at the quality end points x = 0 and x = 1, called with q. *)
ThomeEndPoints ==
    {ThomeWith([b EXCEPT !.x = x, !.env = 7], Num(VInt(InitialGuess)), None) :
        b \in ThomeBase, x \in {QZero, QOne}}

(* Thome in the environments 1, 2, 3 and 5: called with the heat flux 1E4, *)
(* with q = 0 or without q, and without a non-zero Te.                     *)
ThomeArgs ==
    {ThomeWith(b, q, Te) : b \in ThomeBase, q \in {None, Zero, Num(VInt(InitialGuess))},
                           Te \in {None, Zero}}
        \cup ThomeZeroD \cup ThomeLowQuality \cup ThomeMinimumFilm
        \cup ThomeEndPoints

(***************************************************************************)
(* The two-phase correlations of conv_two_phase.py that share the          *)
(* superficial velocities Vgs = m*x/(rhog*pi/4*D**2) and                   *)
(* Vls = m*(1-x)/(rhol*pi/4*D**2).  A sum of two quantities is formed on   *)
(* their rational values.                                                  *)
(***************************************************************************)
VAdd(u, v) == FromQ(QAdd(ToQ(u), ToQ(v)))

Vgs(a) ==
    VDiv(VMul(a.m, a.x), VMul(VDiv(VMul(a.rhog, VPi), VInt(4)), VPow(a.D, QInt(2))))

Vls(a) ==
    VDiv(VMul(a.m, OneMinus(a.x)),
         VMul(VDiv(VMul(a.rhol, VPi), VInt(4)), VPow(a.D, QInt(2))))

ReM(a) ==
    VAdd(VDiv(VMul(VMul(a.D, Vls(a)), a.rhol), a.mu_b),
         VDiv(VMul(VMul(a.D, Vgs(a)), a.rhog), a.mug))

Rels(a) == VDiv(VMul(VMul(a.D, Vls(a)), a.rhol), a.mu_b)

(* Davis_David(m, x, D, rhol, rhog, Cpl, kl, mul) *)
Davis_David(a) ==
    LET G     == MassFlux(a.m, a.D)
        Prl   == Prandtl(a.Cpl, a.kl, a.mul)
        Nu_TP == VMul(VMul(VMul(VRat(60, 1000), VPow(VDiv(a.rhol, a.rhog), D(28, 100))),
                           VPow(VDiv(VMul(VMul(a.D, G), a.x), a.mul), D(87, 100))),
                      VPow(Prl, D(4, 10)))
    IN  Value(VDiv(VMul(Nu_TP, a.kl), a.D))

(* Elamvaluthi_Srinivas(m, x, D, rhol, rhog, Cpl, kl, mug, mu_b, mu_w=None) *)
Elamvaluthi_Srinivas_Nu(a) ==
    VMul(VMul(VMul(VRat(5, 10), VPow(VDiv(a.mug, a.mu_b), D(25, 100))),
              VPow(ReM(a), D(7, 10))),
         VPow(Prandtl(a.Cpl, a.kl, a.mu_b), D(1, 3)))

Elamvaluthi_Srinivas(a) ==
    LET Nu_TP == IF Truthy(a.mu_w)
                 THEN VMul(Elamvaluthi_Srinivas_Nu(a),
                           VPow(VDiv(a.mu_b, a.mu_w.v), D(14, 100)))
                 ELSE Elamvaluthi_Srinivas_Nu(a)
    IN  Value(VDiv(VMul(Nu_TP, a.kl), a.D))

(* Groothuis_Hendal(m, x, D, rhol, rhog, Cpl, kl, mug, mu_b, mu_w=None,    *)
(*                  water=False)                                           *)
Groothuis_Hendal_Nu(a) ==
    IF a.water
    THEN VMul(VMul(VRat(29, 1000), VPow(ReM(a), D(87, 100))),
              VPow(Prandtl(a.Cpl, a.kl, a.mu_b), D(1, 3)))
    ELSE VMul(VMul(VRat(26, 10), VPow(ReM(a), D(39, 100))),
              VPow(Prandtl(a.Cpl, a.kl, a.mu_b), D(1, 3)))

(* The test of line 258 taken as "mu_w is not None". *)
Groothuis_Hendal_not_None(a) ==
    IF IsNone(a.mu_w) THEN Value(VDiv(VMul(Groothuis_Hendal_Nu(a), a.kl), a.D))
    ELSE IF ~Truthy(a.mu_w) THEN Raise("ZeroDivisionError")
    ELSE Value(VDiv(VMul(VMul(Groothuis_Hendal_Nu(a),
                              VPow(VDiv(a.mu_b, a.mu_w.v), D(14, 100))), a.kl), a.D))

Groothuis_Hendal(a) ==
    LET Nu_TP == IF Truthy(a.mu_w)
                 THEN VMul(Groothuis_Hendal_Nu(a),
                           VPow(VDiv(a.mu_b, a.mu_w.v), D(14, 100)))
                 ELSE Groothuis_Hendal_Nu(a)
    IN  Value(VDiv(VMul(Nu_TP, a.kl), a.D))

(* Kudirka_Grosh_McFadden(m, x, D, rhol, rhog, Cpl, kl, mug, mu_b,         *)
(*                        mu_w=None)                                       *)
Kudirka_Grosh_McFadden_Nu(a) ==
    VMul(VMul(VMul(VMul(VInt(125), VPow(VDiv(Vgs(a), Vls(a)), D(125, 1000))),
                   VPow(VDiv(a.mug, a.mu_b), D(6, 10))),
              VPow(Rels(a), D(25, 100))),
         VPow(Prandtl(a.Cpl, a.kl, a.mu_b), D(1, 3)))

(* The ratio of line 496 inverted. *)
Kudirka_Grosh_McFadden_inverted(a) ==
    LET Nu == IF Truthy(a.mu_w)
              THEN VMul(Kudirka_Grosh_McFadden_Nu(a),
                        VPow(VDiv(a.mu_w.v, a.mu_b), D(14, 100)))
              ELSE Kudirka_Grosh_McFadden_Nu(a)
    IN  Value(VDiv(VMul(Nu, a.kl), a.D))

Kudirka_Grosh_McFadden(a) ==
    LET Nu == IF Truthy(a.mu_w)
              THEN VMul(Kudirka_Grosh_McFadden_Nu(a),
                        VPow(VDiv(a.mu_b, a.mu_w.v), D(14, 100)))
              ELSE Kudirka_Grosh_McFadden_Nu(a)
    IN  Value(VDiv(VMul(Nu, a.kl), a.D))

(* Ravipudi_Godbold(m, x, D, rhol, rhog, Cpl, kl, mug, mu_b, mu_w=None) *)
Ravipudi_Godbold_Nu(a) ==
    VMul(VMul(VMul(VMul(VRat(56, 100), VPow(VDiv(Vgs(a), Vls(a)), D(3, 10))),
                   VPow(VDiv(a.mug, a.mu_b), D(2, 10))),
              VPow(Rels(a), D(6, 10))),
         VPow(Prandtl(a.Cpl, a.kl, a.mu_b), D(1, 3)))

Ravipudi_Godbold(a) ==
    LET Nu == IF Truthy(a.mu_w)
              THEN VMul(Ravipudi_Godbold_Nu(a), VPow(VDiv(a.mu_b, a.mu_w.v), D(14, 100)))
              ELSE Ravipudi_Godbold_Nu(a)
    IN  Value(VDiv(VMul(Nu, a.kl), a.D))

(* Arguments of the four: ReM = 25500*k, Vgs/Vls = 25. *)
FlowVals == {VMul(VRat(k, 8), VPi) : k \in 1..MaxK}

WallOpts == {None, Zero, Num(VRat(12, 10000)), Num(VRat(1, 1000))}

TPArgs == [m : FlowVals, x : {VRat(1, 2)}, D : {VRat(1, 2)}, rhol : {VInt(1000)},
           rhog : {VInt(40)}, Cpl : {VInt(2000)}, kl : {VRat(3, 5)},
           mug : {VRat(1, 50000)}, mu_b : {VRat(1, 1000)}, mu_w : WallOpts]

GHArgs == {a @@ [water |-> w] : a \in TPArgs, w \in BOOLEAN}

DDArgs == [m : FlowVals, x : {VRat(1, 2)}, D : {VRat(1, 2)}, rhol : {VInt(1000)},
           rhog : {VInt(40)}, Cpl : {VInt(2000)}, kl : {VRat(3, 5)},
           mul : {VRat(1, 1000)}]

WallCorrected == {"Elamvaluthi_Srinivas", "Groothuis_Hendal", "Kudirka_Grosh_McFadden",
                  "Ravipudi_Godbold"}

(***************************************************************************)
(* Knott(m, x, D, rhol, rhog, Cpl=None, kl=None, mu_b=None, mu_w=None,     *)
(*       L=None, hl=None)                                                  *)
(* laminar_entry_Seider_Tate is the function of ht.conv_internal imported  *)
(* in line 21: Nu = 1.86*(Di/L*Re*Pr)**(1/3), times (mu/mu_w)**0.14 when   *)
(* mu and mu_w are both given.  The names of the collaborators a call of   *)
(* Knott evaluates are kept in the field calls of its locals.  The calls   *)
(* drawn either supply hl or supply Cpl, kl, mu_b and L.                   *)
(***************************************************************************)
laminar_entry_Seider_Tate(Re, Pr, L, Di, mu, mu_w) ==
    LET Nu == VMul(VRat(186, 100), VPow(VMul(VMul(VDiv(Di, L), Re), Pr), D(1, 3)))
    IN  IF Truthy(mu_w) /\ Truthy(mu)
        THEN VMul(Nu, VPow(VDiv(mu.v, mu_w.v), D(14, 100)))
        ELSE Nu

(* The liquid velocity alone in place of the net velocity of line 416. *)
Knott_hl_liquid_velocity(a) ==
    LET V   == Vls(a)
        Re  == Reynolds(V, a.D, a.rhol, a.mu_b.v)
        Pr  == Prandtl(a.Cpl.v, a.kl.v, a.mu_b.v)
        Nul == laminar_entry_Seider_Tate(Re, Pr, a.L.v, a.D, a.mu_b, a.mu_w)
    IN  VDiv(VMul(Nul, a.kl.v), a.D)

(* Lines 416-420. *)
Knott_hl(a) ==
    LET V   == VAdd(Vgs(a), Vls(a))
        Re  == Reynolds(V, a.D, a.rhol, a.mu_b.v)
        Pr  == Prandtl(a.Cpl.v, a.kl.v, a.mu_b.v)
        Nul == laminar_entry_Seider_Tate(Re, Pr, a.L.v, a.D, a.mu_b, a.mu_w)
    IN  VDiv(VMul(Nul, a.kl.v), a.D)

Knott_calls(a) ==
    IF ~Truthy(a.hl) THEN {"Reynolds", "Prandtl", "laminar_entry_Seider_Tate"} ELSE {}

Knott(a) ==
    LET hl == IF ~Truthy(a.hl) THEN Knott_hl(a) ELSE a.hl.v
    IN  [out |-> Value(VMul(hl, VPow(VAdd(VOne, VDiv(Vgs(a), Vls(a))), D(1, 3)))),
         loc |-> [NoLoc EXCEPT !.calls = Knott_calls(a)]]

KnottProps == {[Cpl |-> None, kl |-> None, mu_b |-> None, L |-> None],
               [Cpl |-> Num(VInt(2000)), kl |-> Num(VRat(3, 5)),
                mu_b |-> Num(VRat(1, 1000)), L |-> Num(VInt(4))]}

KnottArgs ==
    {[m |-> m, x |-> VRat(1, 2), D |-> VRat(1, 2), rhol |-> VInt(1000), rhog |-> VInt(40),
      mu_w |-> w, hl |-> h] @@ p :
        <<m, w, h, p>> \in {t \in FlowVals \X {None, Num(VRat(12, 10000))}
                                   \X {None, Zero, Num(VInt(100))} \X KnottProps :
                               Truthy(t[3]) \/ Truthy(t[4].L)}}

(* The outcome of a call that returns a number that is not strictly        *)
(* positive.                                                               *)
NonPositive == [kind |-> "nonpositive", v |-> VOne, err |-> ""]

(***************************************************************************)
(* Hughmark(m, x, alpha, D, L, Cpl, kl, mu_b=None, mu_w=None)              *)
(***************************************************************************)
Hughmark_Nu(a) ==
    LET ml == VMul(a.m, OneMinus(a.x))
        RL == OneMinus(a.alpha)
    IN  VMul(VMul(VRat(175, 100), VPow(RL, D(-5, 10))),
             VPow(VDiv(VDiv(VDiv(VMul(ml, a.Cpl), RL), a.kl), a.L), D(1, 3)))

(* The test of line 333 taken as "if mu_w:". *)
Hughmark_tests_mu_w_only(a) ==
    IF Truthy(a.mu_w)
    THEN IF IsNone(a.mu_b) THEN Raise("TypeError")
         ELSE IF ~Truthy(a.mu_b) THEN NonPositive
         ELSE Value(VDiv(VMul(VMul(Hughmark_Nu(a),
                                   VPow(VDiv(a.mu_b.v, a.mu_w.v), D(14, 100))), a.kl), a.D))
    ELSE Value(VDiv(VMul(Hughmark_Nu(a), a.kl), a.D))

Hughmark(a) ==
    LET Nu_TP == IF Truthy(a.mu_b) /\ Truthy(a.mu_w)
                 THEN VMul(Hughmark_Nu(a), VPow(VDiv(a.mu_b.v, a.mu_w.v), D(14, 100)))
                 ELSE Hughmark_Nu(a)
    IN  Value(VDiv(VMul(Nu_TP, a.kl), a.D))

HughmarkArgs == [m : FlowVals, x : {VRat(1, 2)}, alpha : {VRat(1, 2), VRat(4, 5)},
                 D : {VRat(1, 2)}, L : {VInt(4)}, Cpl : {VInt(2000)}, kl : {VRat(3, 5)},
                 mu_b : {None, Zero, Num(VRat(1, 1000))},
                 mu_w : {None, Zero, Num(VRat(12, 10000))}]

(***************************************************************************)
(* Martin_Sims(m, x, D, rhol, rhog, hl)                                    *)
(* The factor 1 + 0.64*(Vgs/Vls)**0.5 is formed as a rational number.      *)
(***************************************************************************)
Scaled(v, f) == IF QGt(f, QZero) THEN Value(VMul(v, FromQ(f))) ELSE NonPositive

(* The sign of the second term of line 554 reversed. *)
Martin_Sims_minus(a) ==
    Scaled(a.hl, QSub(QOne, QMul(QN(64, 100),
                                 ToQ(VPow(VDiv(Vgs(a), Vls(a)), D(5, 10))))))

Martin_Sims(a) ==
    Scaled(a.hl, QAdd(QOne, QMul(QN(64, 100),
                                 ToQ(VPow(VDiv(Vgs(a), Vls(a)), D(5, 10))))))

(* Vgs/Vls = 25 and 25/4: the factor is 21/5 and 13/5. *)
MSArgs == [m : FlowVals, x : {VRat(1, 2), VRat(1, 5)}, D : {VRat(1, 2)},
           rhol : {VInt(1000)}, rhog : {VInt(40)}, hl : {VInt(100)}]

NonBoiling == {"Davis_David", "Elamvaluthi_Srinivas", "Groothuis_Hendal", "Hughmark",
               "Knott", "Kudirka_Grosh_McFadden", "Martin_Sims", "Ravipudi_Godbold",
               "Aggour"}

Closed == {"Lazarek_Black", "Li_Wu", "Sun_Mishima", "Yun_Heo_Kim"}

Dual == Closed \cup {"Thome"}

(* The keyword parameters of each whose default is None.  (water=False of  *)
(* Groothuis_Hendal may be omitted too; its default is not None.)          *)
Optional(f) ==
    CASE f = "Aggour"   -> {"mu_w", "L", "turbulent"}
      [] f = "Hughmark" -> {"mu_b", "mu_w"}
      [] f = "Knott"    -> {"Cpl", "kl", "mu_b", "mu_w", "L", "hl"}
      [] f \in WallCorrected -> {"mu_w"}
      [] f \in Dual -> {"q", "Te"}
      [] OTHER -> {}

Apply(f, a) ==
    CASE f = "Lazarek_Black" -> Lazarek_Black(a)
      [] f = "Li_Wu"         -> Li_Wu(a)
      [] f = "Sun_Mishima"   -> Sun_Mishima(a)
      [] f = "Yun_Heo_Kim"   -> Yun_Heo_Kim(a)
      [] f = "Aggour"        -> Aggour(a)
      [] f = "Davis_David"   -> Davis_David(a)
      [] f = "Elamvaluthi_Srinivas"   -> Elamvaluthi_Srinivas(a)
      [] f = "Groothuis_Hendal"       -> Groothuis_Hendal(a)
      [] f = "Kudirka_Grosh_McFadden" -> Kudirka_Grosh_McFadden(a)
      [] f = "Ravipudi_Godbold"       -> Ravipudi_Godbold(a)
      [] f = "Knott"                  -> Knott(a).out
      [] f = "Hughmark"               -> Hughmark(a)
      [] f = "Martin_Sims"            -> Martin_Sims(a)

(***************************************************************************)
(* State.  The library keeps none; the model holds the caller's view: the  *)
(* call it made last (fn, args), the outcome (out), whether the call is    *)
(* inside fsolve (pc = "solving"), has returned (pc = "returned") or the   *)
(* outcome has been dropped (pc = "idle"); when the call fed back the      *)
(* excess temperature of the call before it, that call's heat flux and     *)
(* coefficient (rt); for Thome, the locals of the last evaluation of the   *)
(* direct path (loc) and the use made of the solver (sol).                 *)
(***************************************************************************)
VARIABLES pc, fn, args, out, rt, loc, sol

vars == <<pc, fn, args, out, rt, loc, sol>>

NoRt == [on |-> FALSE, q |-> VOne, h |-> VOne]

NoArgs == [q |-> None, Te |-> None]

(* calls: invocations of fsolve; guess: its x0; evals: evaluations of      *)
(* to_solve; x, r: the last point evaluated and its residual, as the pair  *)
(* of its terms; q: the                                                    *)
(* solution reported; finals: evaluations of line 455; directs: the times  *)
(* lines 458-505 were entered, by the call itself or by a call nested in   *)
(* it; depth: the deepest nesting of Thome inside Thome.                   *)
NoSol == [calls |-> 0, guess |-> 0, evals |-> 0, x |-> VZero, r |-> <<VZero, VZero>>,
          q |-> VZero, finals |-> 0, directs |-> 0, depth |-> 0]

MaxEvals == 2

Init ==
    /\ pc = "idle"
    /\ fn = "none"
    /\ args = NoArgs
    /\ out = Raise("")
    /\ rt = NoRt
    /\ loc = NoLoc
    /\ sol = NoSol

Call(f, a) ==
    /\ pc = "idle"
    /\ pc' = "returned"
    /\ fn' = f
    /\ args' = a
    /\ out' = Apply(f, a)
    /\ rt' = NoRt
    /\ UNCHANGED <<loc, sol>>

CallLazarekBlack == \E a \in LBArgs : Call("Lazarek_Black", a)

CallLiWu == \E a \in LWArgs : Call("Li_Wu", a)

CallSunMishima == \E a \in SMArgs : Call("Sun_Mishima", a)

CallYunHeoKim == \E a \in YHKArgs : Call("Yun_Heo_Kim", a)

CallAggour == \E a \in AggourArgs : Call("Aggour", a)

CallDavisDavid == \E a \in DDArgs : Call("Davis_David", a)

CallElamvaluthiSrinivas == \E a \in TPArgs : Call("Elamvaluthi_Srinivas", a)

CallGroothuisHendal == \E a \in GHArgs : Call("Groothuis_Hendal", a)

CallKudirkaGroshMcFadden == \E a \in TPArgs : Call("Kudirka_Grosh_McFadden", a)

CallRavipudiGodbold == \E a \in TPArgs : Call("Ravipudi_Godbold", a)

Returns(f, a, r, s) ==
    /\ pc' = "returned"
    /\ fn' = f
    /\ args' = a
    /\ out' = r.out
    /\ loc' = r.loc
    /\ sol' = s
    /\ UNCHANGED rt

CallHughmark == \E a \in HughmarkArgs : Call("Hughmark", a)

CallMartinSims == \E a \in MSArgs : Call("Martin_Sims", a)

CallKnott ==
    \E a \in KnottArgs :
        /\ pc = "idle"
        /\ Returns("Knott", a, Knott(a), sol)

(* Thome called with q, or with neither q nor a non-zero Te: lines 456-505. *)
CallThome ==
    \E a \in ThomeArgs :
        /\ pc = "idle"
        /\ Thome_entry(a) # "solve"
        /\ Returns("Thome", a, Thome(a),
                   [NoSol EXCEPT !.directs = IF Thome_entry(a) = "direct" THEN 1 ELSE 0])

(* Thome called with Te only: line 454 hands to_solve and the guess 1E4 to *)
(* fsolve.                                                                 *)
CallThomeTe ==
    \E a \in ThomeArgs :
        /\ pc = "idle"
        /\ Thome_entry(a) = "solve"
        /\ pc' = "solving"
        /\ fn' = "Thome"
        /\ args' = a
        /\ sol' = [NoSol EXCEPT !.calls = 1, !.guess = InitialGuess]
        /\ UNCHANGED <<out, rt, loc>>

(* fsolve evaluates to_solve: first at the guess, then wherever it likes.  *)
SolverEval ==
    /\ pc = "solving"
    /\ sol.evals < MaxEvals
    /\ \E q \in (IF sol.evals = 0 THEN {VInt(sol.guess)} ELSE QVals) :
          /\ sol' = [sol EXCEPT !.evals = @ + 1, !.x = q, !.r = Thome_to_solve(args, q),
                                !.directs = @ + Thome_enters_direct(Thome_nested(args, q)),
                                !.depth = Thome_depth(Thome_nested(args, q))]
          /\ loc' = Thome_direct(args, Num(q)).loc
    /\ UNCHANGED <<pc, fn, args, out, rt>>

Finishes(r) ==
    /\ pc' = "returned"
    /\ out' = r.out
    /\ loc' = r.loc
    /\ UNCHANGED <<fn, args, rt>>

(* fsolve reports a solution, a root or not; line 455 evaluates the direct *)
(* path there and returns.                                                 *)
SolverReturn ==
    /\ pc = "solving"
    /\ sol.evals >= 1
    /\ \E q \in QVals :
          /\ sol' = [sol EXCEPT !.q = q, !.finals = @ + 1,
                                !.directs = @ + Thome_enters_direct(Thome_nested(args, q)),
                                !.depth = Thome_depth(Thome_nested(args, q))]
          /\ Finishes(Thome_final(args, q))

(* The round trip: the call just made took the heat-flux path and returned *)
(* h; the same call is made again with q omitted and Te = q/h.             *)
FeedBack ==
    /\ pc = "returned"
    /\ fn \in Closed
    /\ Truthy(args.q)
    /\ out.kind = "value"
    /\ ~rt.on
    /\ LET a == [args EXCEPT !.q = None, !.Te = Num(VDiv(args.q.v, out.v))]
       IN  /\ args' = a
           /\ out' = Apply(fn, a)
           /\ rt' = [on |-> TRUE, q |-> args.q.v, h |-> out.v]
    /\ UNCHANGED <<pc, fn, loc, sol>>

(* The caller drops the outcome; the next call starts from nothing.        *)
Discard ==
    /\ pc = "returned"
    /\ pc' = "idle"
    /\ fn' = "none"
    /\ args' = NoArgs
    /\ out' = Raise("")
    /\ rt' = NoRt
    /\ loc' = NoLoc
    /\ sol' = NoSol

Next ==
    \/ CallLazarekBlack
    \/ CallLiWu
    \/ CallSunMishima
    \/ CallYunHeoKim
    \/ CallAggour
    \/ CallDavisDavid
    \/ CallElamvaluthiSrinivas
    \/ CallGroothuisHendal
    \/ CallKudirkaGroshMcFadden
    \/ CallRavipudiGodbold
    \/ CallHughmark
    \/ CallMartinSims
    \/ CallKnott
    \/ CallThome
    \/ CallThomeTe
    \/ SolverEval
    \/ SolverReturn
    \/ FeedBack
    \/ Discard

Spec == Init /\ [][Next]_vars

(***************************************************************************)
(* C1: a call of Lazarek_Black, Li_Wu, Sun_Mishima, Yun_Heo_Kim or Thome   *)
(* with q and Te both omitted raises 'Either q or Te is needed for this    *)
(* correlation' and returns no value.                                      *)
(***************************************************************************)
C1_NeitherRaises ==
    (/\ pc = "returned" /\ fn \in Dual /\ IsNone(args.q) /\ IsNone(args.Te)
     /\ args.D # VZero
     /\ fn \in Closed => args.mul # VZero)
        => (out.kind = "raise"
            /\ out.err = "Either q or Te is needed for this correlation")

C1_Witness ==
    /\ pc = "returned"
    /\ fn = "Thome"
    /\ IsNone(args.q)
    /\ IsNone(args.Te)
    /\ out.kind = "raise"

(***************************************************************************)
(* C2: for the four closed forms, when q and Te are both supplied, the     *)
(* result is that of the same call with Te omitted, for every supplied q   *)
(* and Te.                                                                 *)
(***************************************************************************)
C2_QTakesPrecedence ==
    (pc = "returned" /\ fn \in Closed /\ ~IsNone(args.q) /\ ~IsNone(args.Te))
        => out = Apply(fn, [args EXCEPT !.Te = None])

(***************************************************************************)
(* C3: round trip of the four closed forms: h from the heat-flux path and  *)
(* Te = q/h fed back through the excess-temperature path give h' with      *)
(* h' * Te = q, and h' = h.                                                *)
(***************************************************************************)
C3_RoundTrip ==
    rt.on => /\ out.kind = "value"
             /\ VMul(out.v, args.Te.v) = rt.q
             /\ out.v = rt.h

C3_Witness ==
    /\ rt.on
    /\ fn = "Yun_Heo_Kim"
    /\ out.kind = "value"
    /\ IsNone(args.q)

(***************************************************************************)
(* C4: in every evaluation of Thome's direct path tl + tv = tau,           *)
(* t_film + t_dry = tv, so tl + t_film + t_dry = tau in both branches and  *)
(* the three weights of the returned average sum to 1.                     *)
(***************************************************************************)
C4_PhasesFillCycle ==
    loc.valid =>
        /\ QAdd(loc.tl, loc.tv) = loc.tau
        /\ QAdd(loc.t_film, loc.t_dry) = loc.tv
        /\ QAdd(QAdd(loc.tl, loc.t_film), loc.t_dry) = loc.tau
        /\ QAdd(QAdd(QDiv(loc.tl, loc.tau), QDiv(loc.t_film, loc.tau)),
                QDiv(loc.t_dry, loc.tau)) = QOne

C4_Witness ==
    /\ pc = "returned"
    /\ fn = "Thome"
    /\ Truthy(args.q)
    /\ loc.valid
    /\ loc.branch = "dry"
    /\ QGt(loc.t_dry, QZero)
    /\ QGt(loc.t_film, QZero)

(***************************************************************************)
(* C5: Thome's film coefficient is h_film = 2*kl/(delta0 + delta_end),     *)
(* delta_end being the end-of-cycle film thickness the dry-out branch      *)
(* chose.                                                                  *)
(***************************************************************************)
C5_FilmCoefficientUsesDeltaEnd ==
    (loc.valid /\ fn = "Thome")
        => loc.h_film = QDiv(QMul(QInt(2), args.kl), QAdd(loc.delta0, loc.delta_end))

(***************************************************************************)
(* C6: Thome's dry-out branch.  t_dry_film = rhol*Hvap/q*(delta0 - 0.3E-6);*)
(* if t_dry_film > tv, strictly, then t_film = tv and t_dry = 0; otherwise *)
(* (t_dry_film = tv included) t_film = t_dry_film, t_dry = tv - t_film and *)
(* delta_end = 0.3E-6.  Exactly one branch is taken.                       *)
(***************************************************************************)
C6_DryOutBranch ==
    (loc.valid /\ fn = "Thome") =>
        /\ loc.t_dry_film =
              IF loc.delta0 = <<3, 10000000>> THEN QZero
              ELSE QMul(QDiv(QMul(args.rhol, args.Hvap), ToQ(loc.q)),
                        QSub(loc.delta0, <<3, 10000000>>))
        /\ loc.branch \in {"film", "dry"}
        /\ IF QLt(loc.tv, loc.t_dry_film)
           THEN /\ loc.branch = "film"
                /\ loc.t_film = loc.tv
                /\ loc.t_dry = QZero
           ELSE /\ loc.branch = "dry"
                /\ loc.t_film = loc.t_dry_film
                /\ loc.t_dry = QSub(loc.tv, loc.t_film)
                /\ loc.delta_end = <<3, 10000000>>

C6_Witness ==
    /\ pc = "returned"
    /\ fn = "Thome"
    /\ loc.valid
    /\ loc.t_dry_film = loc.tv
    /\ loc.branch = "dry"
    /\ loc.t_film = loc.t_dry_film

(***************************************************************************)
(* C7: in Thome's direct path, when Ldry = t_dry*vp is zero, both vapor    *)
(* Nusselt terms are exactly 0, nothing is divided by Ldry, the vapor term *)
(* adds exactly 0 to h, and the call returns a number.                     *)
(***************************************************************************)
C7_ZeroLdry ==
    (loc.valid /\ loc.Ldry = QZero) =>
        /\ loc.Nu_lam_Zg = VZero
        /\ loc.Nu_trans_Zg = VZero
        /\ ~loc.divLdry
        /\ loc.err = ""
        /\ QMul(QDiv(loc.t_dry, loc.tau), loc.h_Zg) = QZero
        /\ pc = "returned" => (out.kind = "value" /\ out.v = loc.h)

C7_Witness ==
    /\ pc = "returned"
    /\ fn = "Thome"
    /\ Truthy(args.q)
    /\ loc.valid
    /\ loc.Ldry = QZero
    /\ out.kind = "value"

(***************************************************************************)
(* C8: Thome's inverse path (q absent, Te non-zero): fsolve is invoked     *)
(* once, on q/h_direct(q) - Te with the guess 1E4, and the call returns    *)
(* the direct path evaluated once at the q fsolve reports, root or not; at *)
(* an exact root q/h = Te.                                                 *)
(***************************************************************************)
C8_InversePath ==
    (fn = "Thome" /\ IsNone(args.q) /\ Truthy(args.Te)) =>
        /\ sol.calls = 1
        /\ sol.guess = 10000
        /\ sol.evals = 1 => sol.x = VInt(10000)
        /\ sol.evals >= 1 =>
              \E h \in {Thome_locals(args, sol.x).h} :
                  sol.r = <<VDiv(sol.x, FromQ(h)), args.Te.v>>
        /\ pc = "solving" => sol.finals = 0
        /\ pc = "returned" =>
              /\ sol.finals = 1
              /\ out = Value(Thome_locals(args, sol.q).h)
              /\ \A h \in {Thome_locals(args, sol.q).h} :
                    VDiv(sol.q, FromQ(h)) = args.Te.v
                        => VMul(FromQ(out.v), args.Te.v) = sol.q

C8_Witness ==
    /\ pc = "returned"
    /\ fn = "Thome"
    /\ IsNone(args.q)
    /\ Truthy(args.Te)
    /\ sol.q # VInt(10000)
    /\ VDiv(sol.q, FromQ(out.v)) # args.Te.v

(***************************************************************************)
(* C9: Aggour with turbulent left at None uses the turbulent formula if    *)
(* and only if Rel > 2000; Rel = 2000 takes the laminar formula.           *)
(***************************************************************************)
C9_BranchByReynolds ==
    (pc = "returned" /\ fn = "Aggour" /\ IsNone(args.turbulent)) =>
        IF Aggour_Rel_above(args)
        THEN out = Aggour_turbulent(args)
        ELSE out = Aggour_laminar(args)

C9_Witness ==
    /\ pc = "returned"
    /\ fn = "Aggour"
    /\ IsNone(args.turbulent)
    /\ ToQ(Aggour_Rel(args)) = QInt(2000)
    /\ args.round = "exact"
    /\ out.kind = "value"
    /\ out # Aggour_turbulent(args)

(***************************************************************************)
(* C10: Aggour's override: turbulent=True uses the turbulent formula for   *)
(* every Rel, turbulent=False the laminar formula for every Rel.           *)
(***************************************************************************)
C10_OverrideForcesBranch ==
    (pc = "returned" /\ fn = "Aggour") =>
        /\ args.turbulent.t = "True" => out = Aggour_turbulent(args)
        /\ args.turbulent.t = "False" => out = Aggour_laminar(args)

C10_Witness ==
    /\ pc = "returned"
    /\ fn = "Aggour"
    /\ args.turbulent.t = "True"
    /\ QLt(ToQ(Aggour_Rel(args)), QInt(2000))
    /\ out = Aggour_turbulent(args)
    /\ out # Aggour_laminar(args)

(***************************************************************************)
(* C11: Aggour called without L fails with an arithmetic-on-absent-value   *)
(* error (TypeError) if and only if the laminar branch is taken; when the  *)
(* turbulent branch is taken, by Rel > 2000 without override or by         *)
(* turbulent=True, the call without L returns a result.                    *)
(***************************************************************************)
C11_MissingLengthOnlyLaminar ==
    (pc = "returned" /\ fn = "Aggour" /\ IsNone(args.L)) =>
        LET turb == \/ args.turbulent.t = "True"
                    \/ (IsNone(args.turbulent) /\ Aggour_Rel_above(args))
        IN  /\ turb => out.kind = "value"
            /\ ~turb => (out.kind = "raise" /\ out.err = "TypeError")

C11_Witness ==
    /\ pc = "returned"
    /\ fn = "Aggour"
    /\ IsNone(args.L)
    /\ IsNone(args.turbulent)
    /\ QLt(QInt(2000), ToQ(Aggour_Rel(args)))
    /\ out.kind = "value"

(***************************************************************************)
(* C12: in Elamvaluthi_Srinivas, Groothuis_Hendal, Kudirka_Grosh_McFadden  *)
(* and Ravipudi_Godbold the result with mu_w supplied is the result of the *)
(* same call without mu_w times (mu_b/mu_w)^0.14; with mu_w omitted the    *)
(* result is the uncorrected Nusselt number times kl/D, the same as with   *)
(* mu_w = mu_b.                                                            *)
(***************************************************************************)
C12_WallCorrection ==
    (pc = "returned" /\ fn \in WallCorrected) =>
        LET without == Apply(fn, [args EXCEPT !.mu_w = None])
            Nu == CASE fn = "Elamvaluthi_Srinivas"   -> Elamvaluthi_Srinivas_Nu(args)
                    [] fn = "Groothuis_Hendal"       -> Groothuis_Hendal_Nu(args)
                    [] fn = "Kudirka_Grosh_McFadden" -> Kudirka_Grosh_McFadden_Nu(args)
                    [] fn = "Ravipudi_Godbold"       -> Ravipudi_Godbold_Nu(args)
        IN  /\ out.kind = "value"
            /\ Truthy(args.mu_w) =>
                  out.v = VMul(without.v, VPow(VDiv(args.mu_b, args.mu_w.v), D(14, 100)))
            /\ IsNone(args.mu_w) =>
                  /\ out.v = VDiv(VMul(Nu, args.kl), args.D)
                  /\ out = Apply(fn, [args EXCEPT !.mu_w = Num(args.mu_b)])

C12_Witness ==
    /\ pc = "returned"
    /\ fn = "Kudirka_Grosh_McFadden"
    /\ Truthy(args.mu_w)
    /\ args.mu_w.v # args.mu_b
    /\ out.kind = "value"
    /\ out # Apply(fn, [args EXCEPT !.mu_w = None])

(***************************************************************************)
(* C13: Knott with hl supplied returns hl*(1 + Vgs/Vls)^(1/3), evaluates   *)
(* none of Reynolds, Prandtl and laminar_entry_Seider_Tate and returns the *)
(* same whether Cpl, kl, mu_b, mu_w and L are supplied or absent; without  *)
(* hl it evaluates the three and uses hl = Nul*kl/D, Nul being             *)
(* laminar_entry_Seider_Tate at the velocity Vgs + Vls.                    *)
(***************************************************************************)
C13_KnottLiquidCoefficient ==
    (pc = "returned" /\ fn = "Knott") =>
        LET ratio  == VDiv(VMul(args.x, args.rhol), VMul(OneMinus(args.x), args.rhog))
            factor == VPow(FromQ(QAdd(QOne, ToQ(ratio))), D(1, 3))
            bare   == [args EXCEPT !.Cpl = None, !.kl = None, !.mu_b = None,
                                   !.mu_w = None, !.L = None]
            V      == FromQ(QAdd(ToQ(Vgs(args)), ToQ(Vls(args))))
            Nul    == laminar_entry_Seider_Tate(
                          VDiv(VMul(VMul(V, args.D), args.rhol), args.mu_b.v),
                          VDiv(VMul(args.Cpl.v, args.mu_b.v), args.kl.v),
                          args.L.v, args.D, args.mu_b, args.mu_w)
        IN  /\ Truthy(args.hl) =>
                  /\ out = Value(VMul(args.hl.v, factor))
                  /\ loc.calls = {}
                  /\ out = Apply("Knott", bare)
            /\ ~Truthy(args.hl) =>
                  /\ loc.calls = {"Reynolds", "Prandtl", "laminar_entry_Seider_Tate"}
                  /\ out = Value(VMul(VDiv(VMul(Nul, args.kl.v), args.D), factor))

C13_Witness ==
    /\ pc = "returned"
    /\ fn = "Knott"
    /\ IsNone(args.hl)
    /\ Truthy(args.mu_w)
    /\ loc.calls # {}
    /\ out.kind = "value"

(***************************************************************************)
(* C14: every non-boiling correlation called with strictly positive        *)
(* arguments, x and alpha inside (0,1), returns a strictly positive h:     *)
(* no argument supplied is 0, Knott is given hl and Aggour is given L.     *)
(***************************************************************************)
C14_PositiveCoefficient ==
    (/\ pc = "returned"
     /\ fn \in NonBoiling
     /\ \A n \in Optional(fn) : args[n].t # "zero"
     /\ QLt(QZero, ToQ(args.x)) /\ QLt(ToQ(args.x), QOne)
     /\ "alpha" \in DOMAIN args =>
            (QLt(QZero, ToQ(args.alpha)) /\ QLt(ToQ(args.alpha), QOne))
     /\ fn = "Knott" => Truthy(args.hl)
     /\ fn = "Aggour" => Truthy(args.L))
        => out.kind = "value"

C14_Witness ==
    /\ pc = "returned"
    /\ fn = "Martin_Sims"
    /\ args.x = VRat(1, 5)
    /\ out = Value(VMul(args.hl, VRat(13, 5)))

(***************************************************************************)
(* C16: a dual-mode correlation called with neither q nor Te raises        *)
(* 'Either q or Te is needed for this correlation' whatever its other      *)
(* arguments are, D = 0 and mul = 0 included: the check comes before the   *)
(* mass flux and the Reynolds, Bond and Weber numbers are computed.        *)
(***************************************************************************)
C16_CheckPrecedesComputation ==
    (pc = "returned" /\ fn \in Dual /\ IsNone(args.q) /\ IsNone(args.Te))
        => out = Raise(NeedMsg)

(***************************************************************************)
(* C17: a zero is treated as an absent value.  In the four closed-form     *)
(* boiling correlations, the other arguments being valid, q = 0 with a     *)
(* non-zero Te gives the result of the Te path and a call in which neither *)
(* q nor Te is a non-zero number raises 'Either q or Te is needed for this *)
(* correlation'.  In the non-boiling correlations mu_w = 0 gives the       *)
(* result of the call without mu_w and no division by zero, and Knott with *)
(* hl = 0 computes hl as it does without hl.                               *)
(***************************************************************************)
C17_ZeroIsAbsent ==
    pc = "returned" =>
        /\ (fn \in Closed /\ args.D # VZero /\ args.mul # VZero) =>
              /\ (args.q = Zero /\ Truthy(args.Te)) =>
                    out = Value(CASE fn = "Lazarek_Black" -> Lazarek_Black_Te(args)
                                  [] fn = "Li_Wu"         -> Li_Wu_Te(args)
                                  [] fn = "Sun_Mishima"   -> Sun_Mishima_Te(args)
                                  [] fn = "Yun_Heo_Kim"   -> Yun_Heo_Kim_Te(args))
              /\ (~Truthy(args.q) /\ ~Truthy(args.Te)) => out = Raise(NeedMsg)
        /\ (fn \in WallCorrected \cup {"Hughmark", "Aggour"} /\ args.mu_w = Zero) =>
              /\ out = Apply(fn, [args EXCEPT !.mu_w = None])
              /\ fn # "Aggour" => out.kind = "value"
        /\ (fn = "Knott" /\ args.hl = Zero) =>
              /\ out = Apply(fn, [args EXCEPT !.hl = None])
              /\ out = Value(VMul(Knott_hl(args),
                                  VPow(VAdd(VOne, VDiv(Vgs(args), Vls(args))), D(1, 3))))
              /\ loc.calls # {}

C17_Witness ==
    /\ pc = "returned"
    /\ fn = "Groothuis_Hendal"
    /\ args.mu_w = Zero
    /\ out.kind = "value"

(***************************************************************************)
(* C18: in Thome's direct path Ldry = t_dry*vp, and the liquid slug length *)
(* tau*G/rhol*(1-x) is tl*vp, with vp = G*(x/rhog + (1-x)/rhol) and        *)
(* tl = tau/(1 + rhol/rhog*x/(1-x)).                                       *)
(***************************************************************************)
C18_LengthsAreDurationTimesVelocity ==
    (fn = "Thome" /\ loc.valid) =>
        LET x  == args.x
            vp == QMul(loc.G, QAdd(QDiv(x, args.rhog), QDiv(QSub(QOne, x), args.rhol)))
            tl == QDiv(loc.tau,
                       QAdd(QOne, QMul(QDiv(args.rhol, args.rhog), QDiv(x, QSub(QOne, x)))))
        IN  /\ loc.vp = vp
            /\ loc.tl = tl
            /\ loc.Ldry = QMul(loc.t_dry, vp)
            /\ loc.Ll = QMul(tl, vp)
            /\ loc.Ll = QMul(QDiv(QMul(loc.tau, loc.G), args.rhol), QSub(QOne, x))

C18_Witness ==
    /\ pc = "returned"
    /\ fn = "Thome"
    /\ loc.valid
    /\ args.x = <<1, 9>>
    /\ loc.branch = "dry"
    /\ QGt(loc.Ldry, QZero)
    /\ QGt(loc.Ll, QZero)

(***************************************************************************)
(* C19: whenever Aggour takes the turbulent branch the result is           *)
(* 0.0155*(kl/D)*Rel^0.83*Prl^0.5*(1-alpha)^-0.83, the same whether mu_w   *)
(* and L are supplied or not; in the laminar branch the result is          *)
(* 1.615*(kl/D)*(Rel*Prl*D/L)^(1/3)*(1-alpha)^(-1/3), multiplied by        *)
(* (mu_b/mu_w)^0.14 exactly when mu_w is supplied.                         *)
(***************************************************************************)
C19_CorrectionOnlyLaminar ==
    (pc = "returned" /\ fn = "Aggour") =>
        LET Rel  == Aggour_Rel(args)
            Prl  == Aggour_Prl(args)
            turb == \/ args.turbulent.t = "True"
                    \/ (IsNone(args.turbulent) /\ Aggour_Rel_above(args))
            lam  == VMul(VMul(VMul(VRat(1615, 1000), VDiv(args.kl, args.D)),
                              VPow(VDiv(VMul(VMul(Rel, Prl), args.D), args.L.v), D(1, 3))),
                         VPow(OneMinus(args.alpha), D(-1, 3)))
        IN  /\ turb =>
                  /\ out = Value(VMul(VMul(VMul(VMul(VRat(155, 10000),
                                                     VDiv(args.kl, args.D)),
                                                VPow(Rel, D(83, 100))),
                                           VPow(Prl, D(5, 10))),
                                      VPow(OneMinus(args.alpha), D(-83, 100))))
                  /\ out = Apply(fn, [args EXCEPT !.mu_w = None, !.L = None])
            /\ (~turb /\ Truthy(args.L) /\ Truthy(args.mu_w)) =>
                  out = Value(VMul(lam, VPow(VDiv(args.mu_b, args.mu_w.v), D(14, 100))))
            /\ (~turb /\ Truthy(args.L) /\ ~Truthy(args.mu_w)) => out = Value(lam)

C19_Witness ==
    /\ pc = "returned"
    /\ fn = "Aggour"
    /\ IsNone(args.turbulent)
    /\ QGt(ToQ(Aggour_Rel(args)), QInt(2000))
    /\ Truthy(args.mu_w)
    /\ Truthy(args.L)
    /\ out.kind = "value"
    /\ out = Apply(fn, [args EXCEPT !.mu_w = None, !.L = None])

(***************************************************************************)
(* C20: Hughmark multiplies by (mu_b/mu_w)^0.14 if and only if mu_b and    *)
(* mu_w are both supplied and non-zero; in every other call, mu_b omitted  *)
(* with or without mu_w included, it returns without error                 *)
(* 1.75*(1-alpha)^-0.5*(m*(1-x)*Cpl/((1-alpha)*kl*L))^(1/3)*kl/D.          *)
(***************************************************************************)
C20_HughmarkNeedsBothViscosities ==
    (pc = "returned" /\ fn = "Hughmark") =>
        LET RL   == OneMinus(args.alpha)
            bare == VDiv(VMul(VMul(VMul(VRat(175, 100), VPow(RL, D(-5, 10))),
                                   VPow(VDiv(VMul(VMul(args.m, OneMinus(args.x)), args.Cpl),
                                             VMul(VMul(RL, args.kl), args.L)), D(1, 3))),
                              args.kl), args.D)
        IN  IF Truthy(args.mu_b) /\ Truthy(args.mu_w)
            THEN out = Value(VMul(bare, VPow(VDiv(args.mu_b.v, args.mu_w.v), D(14, 100))))
            ELSE out = Value(bare)

C20_Witness ==
    /\ pc = "returned"
    /\ fn = "Hughmark"
    /\ IsNone(args.mu_b)
    /\ Truthy(args.mu_w)
    /\ out.kind = "value"

(***************************************************************************)
(* C21: Thome called with q and Te both supplied, Te zero or not, never    *)
(* invokes fsolve, enters the direct path once, at the q given, and        *)
(* returns what the same call without Te returns.                          *)
(***************************************************************************)
C21_BothSuppliedTakesDirectPath ==
    (fn = "Thome" /\ ~IsNone(args.q) /\ ~IsNone(args.Te)) =>
        /\ pc = "returned"
        /\ sol.calls = 0
        /\ sol.evals = 0
        /\ sol.finals = 0
        /\ sol.directs = 1
        /\ out = Thome([args EXCEPT !.Te = None]).out
        /\ Truthy(args.q) =>
              /\ loc.valid
              /\ loc.q = args.q.v
              /\ out = Thome_result(Thome_locals(args, args.q.v)).out

C21_Witness ==
    /\ pc = "returned"
    /\ fn = "Thome"
    /\ Truthy(args.q)
    /\ Truthy(args.Te)
    /\ sol.calls = 0
    /\ out.kind = "value"

(***************************************************************************)
(* C22: after the dry-out branch of Thome's direct path, t_dry >= 0 and    *)
(* t_film <= tv; t_dry = 0 exactly when t_dry_film >= tv; t_film and the   *)
(* film weight t_film/tau are non-negative exactly when delta0 is at least *)
(* the minimum film thickness 0.3E-6, and for delta0 below it t_film < 0   *)
(* and t_dry > tv.                                                         *)
(***************************************************************************)
C22_DryOutTimes ==
    (fn = "Thome" /\ loc.valid) =>
        /\ ~QLt(loc.t_dry, QZero)
        /\ ~QGt(loc.t_film, loc.tv)
        /\ (loc.t_dry = QZero) <=> ~QLt(loc.t_dry_film, loc.tv)
        /\ ~QLt(loc.t_film, QZero) <=> ~QLt(loc.delta0, <<3, 10000000>>)
        /\ ~QLt(QDiv(loc.t_film, loc.tau), QZero) <=> ~QLt(loc.delta0, <<3, 10000000>>)
        /\ QLt(loc.delta0, <<3, 10000000>>) =>
              (QLt(loc.t_film, QZero) /\ QGt(loc.t_dry, loc.tv))

C22_Witness ==
    /\ pc = "returned"
    /\ fn = "Thome"
    /\ loc.valid
    /\ QLt(loc.delta0, <<3, 10000000>>)
    /\ QLt(loc.t_film, QZero)
    /\ QGt(loc.t_dry, loc.tv)

(***************************************************************************)
(* C23: Thome raises 'Either q or Te is needed for this correlation' only  *)
(* when q and Te are both None.  With q None and Te = 0, or with q = 0     *)
(* whatever Te is, it does not raise that error and does not invoke        *)
(* fsolve: it enters the direct path and fails there, with a TypeError on  *)
(* the absent q or with a ZeroDivisionError at tau = 1./fopt.              *)
(***************************************************************************)
C23_IdentityTestOnQ ==
    (fn = "Thome" /\ args.D # VZero) =>
        /\ out = Raise(NeedMsg) => (IsNone(args.q) /\ IsNone(args.Te))
        /\ (IsNone(args.q) /\ args.Te = Zero) =>
              /\ pc = "returned"
              /\ sol.calls = 0
              /\ sol.directs = 1
              /\ out = Raise("TypeError")
        /\ args.q = Zero =>
              /\ pc = "returned"
              /\ sol.calls = 0
              /\ sol.directs = 1
              /\ out = Raise("ZeroDivisionError")

C23_Witness ==
    /\ pc = "returned"
    /\ fn = "Thome"
    /\ args.q = Zero
    /\ Truthy(args.Te)
    /\ sol.directs = 1
    /\ out = Raise("ZeroDivisionError")

(***************************************************************************)
(* C24: Thome's inverse path never re-enters itself and terminates.  Each  *)
(* nested call, a residual evaluation or the final evaluation, is made     *)
(* with a q that is not None and takes the direct path, so that fsolve is  *)
(* invoked once, the nesting is at most one deep and the direct path is    *)
(* entered once for each evaluation; and every step of a call that is      *)
(* inside fsolve is one more residual evaluation, made by the direct path, *)
(* or the return of the call, after which nothing more is evaluated: the   *)
(* call ends with the solver's last evaluation.                            *)
(***************************************************************************)
C24_NoReentryAndTermination ==
    /\ []((fn = "Thome" /\ IsNone(args.q) /\ Truthy(args.Te)) =>
            /\ sol.calls = 1
            /\ sol.depth <= 1
            /\ sol.directs = sol.evals + sol.finals
            /\ sol.evals >= 1 =>
                  /\ ~IsNone(Thome_nested(args, sol.x).q)
                  /\ Thome_entry(Thome_nested(args, sol.x)) = "direct"
            /\ pc = "returned" =>
                  (sol.finals = 1 /\ Thome_entry(Thome_nested(args, sol.q)) = "direct"))
    /\ [][pc = "solving" =>
             \/ /\ pc' = "solving"
                /\ sol'.calls = sol.calls
                /\ sol'.evals = sol.evals + 1
                /\ sol'.directs = sol.directs + 1
                /\ sol'.finals = 0
             \/ /\ pc' = "returned"
                /\ sol'.calls = sol.calls
                /\ sol'.evals = sol.evals
                /\ sol'.directs = sol.directs + 1
                /\ sol'.finals = 1]_vars
    /\ [][(pc = "returned" /\ fn = "Thome") => sol' \in {sol, NoSol}]_vars

C24_Witness ==
    /\ pc = "returned"
    /\ fn = "Thome"
    /\ IsNone(args.q)
    /\ Truthy(args.Te)
    /\ sol.evals >= 2
    /\ sol.finals = 1
    /\ sol.depth = 1
    /\ sol.directs = sol.evals + 1
(***************************************************************************)
(* C25: Thome's direct path returns no result at x = 0 and at x = 1: at    *)
(* x = 1 the computation of tl, at x = 0 that of tv, after tl, raises      *)
(* ZeroDivisionError, before the dry-out branch and the test of Ldry.      *)
(***************************************************************************)
C25_QualityEndPoints ==
    (pc = "returned" /\ fn = "Thome" /\ Truthy(args.q) /\ args.x \in {<<0, 1>>, <<1, 1>>}) =>
        /\ out = Raise("ZeroDivisionError")
        /\ ~loc.valid
        /\ loc.branch = "none"
        /\ ~loc.divLdry
        /\ loc.tv = QZero
        /\ loc.tau = ToQ(VDiv(VOne, VPow(VDiv(args.q.v, Env_qref(args.env)), D(174, 100))))
        /\ args.x = <<0, 1>> => loc.tl = loc.tau
        /\ args.x = <<1, 1>> => loc.tl = QZero

C25_Witness ==
    /\ pc = "returned"
    /\ fn = "Thome"
    /\ Truthy(args.q)
    /\ args.x = <<0, 1>>
    /\ out = Raise("ZeroDivisionError")
    /\ QGt(loc.tl, QZero)

=============================================================================
